---- MODULE Spec2Model ----
(***************************************************************************)
(* Retirement projection engine of PensionMVP (calculateProjections and    *)
(* calculateUKTax of the App component, src/unnamed/part_001).             *)
(*                                                                         *)
(* Money is an integer number of thousandths of a pound, so that the tax   *)
(* of a whole-pound income is exact (rates are multiples of 0.05 and the   *)
(* allowance taper halves a pound).  Rates are per mille.  A product       *)
(* amount * rate is truncated to a thousandth of a pound where the source  *)
(* keeps an IEEE double; Math.pow(1 + r, i) * x is compounded year by year *)
(* with the same truncation.                                               *)
(*                                                                         *)
(* A JavaScript object is a record; a property that is undefined is a      *)
(* field missing from DOMAIN.  null is the empty tuple.                    *)
(***************************************************************************)
EXTENDS Integers, Sequences, FiniteSets, TLC

VARIABLES
    today,          \* the date read by new Date() (run start date)
    lastBaseData,   \* React state lastBaseData
    projections,    \* React state projections
    pc,             \* "idle" or "loop": position inside calculateProjections
    args,           \* arguments (data, events) of the current / last call
    baseData,       \* local baseData of the running call
    loc,            \* locals that live across loop iterations
    yr,             \* locals of the loop iteration that ran last
    results,        \* local results
    taxIn,          \* pair of incomes handed to calculateUKTax
    taxOut,         \* the pair of taxes returned for taxIn
    snap,           \* observer: one finished call (arguments and outcome)
    messages,       \* React state messages (the conversation)
    inputText,      \* React state inputText
    isLoading,      \* React state isLoading
    user,           \* React state user
    showAuth,       \* React state showAuth
    chatFetches,    \* the fetch calls of sendMessage to /api/chat, in issue order
    userSyncingRef, \* userSyncingRef.current
    upserts,        \* the users upserts of ensureUserRecord, in issue order
    apiKey,         \* whether the proxy's environment holds an API key
    proxyCalls,     \* the requests the /api/chat proxy has received
    assumptions,    \* React state assumptions
    lifeEvents,     \* React state lifeEvents
    plannedRetirementAge, \* React state plannedRetirementAge
    projectionFetches     \* the fetch calls to /api/projections, in issue order

engineVars == <<today, lastBaseData, projections, pc, args, baseData, loc, yr,
                results, taxIn, taxOut, snap>>

chatVars == <<messages, inputText, isLoading, user, showAuth, chatFetches>>

syncVars == <<userSyncingRef, upserts>>

proxyVars == <<apiKey, proxyCalls>>

asyncVars == <<assumptions, lifeEvents, plannedRetirementAge, projectionFetches>>

uiVars == <<chatVars, syncVars, proxyVars, asyncVars>>

vars == <<engineVars, uiVars>>

NULL == <<>>

Pounds(n) == n * 1000

Max(a, b) == IF a >= b THEN a ELSE b
Min(a, b) == IF a <= b THEN a ELSE b

\* floor(x * r / 1000) without leaving 32-bit range
Times(x, r) == (x \div 1000) * r + ((x % 1000) * r) \div 1000

\* Math.round of an amount, in whole pounds
Round(x) == (x + 500) \div 1000

\* x * Math.pow(1 + r, i); the singleton set binds p to the value of the
\* year before, so that it is computed once
RECURSIVE Compound(_, _, _)
Compound(x, r, i) ==
    IF i = 0 THEN x
    ELSE CHOOSE v \in { p + Times(p, r) : p \in {Compound(x, r, i - 1)} } : TRUE

(***************************************************************************)
(* Configuration constants                                                  *)
(***************************************************************************)
GROWTH_RATE_ACCUMULATION == 50
GROWTH_RATE_DRAWDOWN == 40
INFLATION_RATE == 25
STATE_PENSION_AGE == 67
FULL_STATE_PENSION == Pounds(11502)

PERSONAL_ALLOWANCE == Pounds(12570)
BASIC_RATE_THRESHOLD == Pounds(50270)
HIGHER_RATE_THRESHOLD == Pounds(125140)
BASIC_TAX_RATE == 200
HIGHER_TAX_RATE == 400
ADDITIONAL_TAX_RATE == 450

TAX_FREE_LUMP_SUM_RATE == 250
DEFAULT_RETIREMENT_AGE == 67
PROJECTION_YEARS == 30

\* literals of calculateProjections / calculateUKTax
TAPER_THRESHOLD == Pounds(100000)
DEFAULT_INCOME_NEEDED == Pounds(25000)
PROPERTY_GROWTH_RATE == 30
MORTGAGE_PRINCIPAL_SHARE == 300

(***************************************************************************)
(* calculateUKTax                                                           *)
(***************************************************************************)
EffectiveAllowance_Untapered(totalIncome) ==
    IF totalIncome > TAPER_THRESHOLD /\ totalIncome <= HIGHER_RATE_THRESHOLD
    THEN Max(0, PERSONAL_ALLOWANCE - (totalIncome - TAPER_THRESHOLD) \div 2)
    ELSE PERSONAL_ALLOWANCE

EffectiveAllowance(totalIncome) ==
    IF totalIncome > TAPER_THRESHOLD
    THEN Max(0, PERSONAL_ALLOWANCE - (totalIncome - TAPER_THRESHOLD) \div 2)
    ELSE PERSONAL_ALLOWANCE

BasicBand_FromZero(remainingIncome) ==
    Min(remainingIncome, BASIC_RATE_THRESHOLD)

BasicBand(remainingIncome) ==
    Min(remainingIncome, BASIC_RATE_THRESHOLD - PERSONAL_ALLOWANCE)

HigherBand(remainingIncome) ==
    Min(remainingIncome, HIGHER_RATE_THRESHOLD - BASIC_RATE_THRESHOLD)

calculateUKTax(totalIncome) ==
    IF totalIncome <= PERSONAL_ALLOWANCE THEN 0
    ELSE
    LET remaining0 == totalIncome - EffectiveAllowance(totalIncome)
    IN  IF remaining0 <= 0 THEN 0
        ELSE
        LET basicBand  == BasicBand(remaining0)
            tax1       == IF basicBand > 0 THEN Times(basicBand, BASIC_TAX_RATE) ELSE 0
            remaining1 == IF basicBand > 0 THEN remaining0 - basicBand ELSE remaining0
            higherBand == HigherBand(remaining1)
            tax2       == IF higherBand > 0 THEN tax1 + Times(higherBand, HIGHER_TAX_RATE) ELSE tax1
            remaining2 == IF higherBand > 0 THEN remaining1 - higherBand ELSE remaining1
        IN  IF remaining2 > 0
            THEN tax2 + Times(remaining2, ADDITIONAL_TAX_RATE)
            ELSE tax2

\* remainingIncome at the additional-rate step: what the two bands left over
AdditionalSlice(totalIncome) ==
    IF totalIncome <= PERSONAL_ALLOWANCE THEN 0
    ELSE
    LET remaining0 == totalIncome - EffectiveAllowance(totalIncome)
    IN  IF remaining0 <= 0 THEN 0
        ELSE
        LET basicBand  == BasicBand(remaining0)
            remaining1 == IF basicBand > 0 THEN remaining0 - basicBand ELSE remaining0
            higherBand == HigherBand(remaining1)
            remaining2 == IF higherBand > 0 THEN remaining1 - higherBand ELSE remaining1
        IN  Max(0, remaining2)

(***************************************************************************)
(* calculateProjections: reading the profile                                *)
(***************************************************************************)
\* obj.f || dflt for a numeric property (undefined and 0 are both falsy)
NumOr(obj, f, dflt) ==
    IF f \in DOMAIN obj /\ obj[f] # 0 THEN obj[f] ELSE dflt

HasDob(data) == "date_of_birth" \in DOMAIN data

\* currentAge, for a profile with a date of birth
CurrentAge(data, td) ==
    LET dob == data.date_of_birth
        a   == td.year - dob.year
        m   == td.month - dob.month
    IN  IF m < 0 \/ (m = 0 /\ td.day < dob.day) THEN a - 1 ELSE a

PensionPot0(data)         == NumOr(data, "total_pension_value", 0)
MonthlyContribution(data) == NumOr(data, "monthly_contribution", 0)
AnnualContribution(data)  == MonthlyContribution(data) * 12
StatePensionBase(data)    == NumOr(data, "state_pension_amount", FULL_STATE_PENSION)
AnnualIncomeNeeded(data)  == NumOr(data, "annual_income_needed", DEFAULT_INCOME_NEEDED)
RetirementAge(data)       == NumOr(data, "planned_retirement_age", DEFAULT_RETIREMENT_AGE)
PropertyValue(data)       == NumOr(data, "property_value", 0)
TotalDebt(data)           == NumOr(data, "total_debt", 0)
LumpSumTaken(data) ==
    IF "lump_sum_taken" \in DOMAIN data THEN data.lump_sum_taken ELSE FALSE
StillContributing(data) ==
    IF "still_contributing" \in DOMAIN data THEN data.still_contributing # FALSE ELSE TRUE

\* mortgageMonthlyPayment * 12: the yearly payment of a 25-year mortgage at
\* 4%, (0.04/12) / (1 - (1 + 0.04/12)^-300) * 12 = 0.063340 of the debt
MortgageAnnualPayment(totalDebt) ==
    IF totalDebt > 0
    THEN Times(totalDebt, 63) + Times(Times(totalDebt, 340), 1)
    ELSE 0

\* the locals declared before the loop
InitialLocals(data) ==
    [ i                   |-> 0,
      pensionPot          |-> PensionPot0(data),
      mortgageBalance     |-> TotalDebt(data),
      hasRetired          |-> FALSE,
      hasTakenLumpSum     |-> LumpSumTaken(data),
      taxFreeCashReceived |-> 0,
      cumulativeDrawdown  |-> 0,
      fundsDepleted       |-> FALSE,
      depletionAge        |-> NULL ]

(***************************************************************************)
(* calculateProjections: the steps of one loop iteration                    *)
(***************************************************************************)
\* the loop condition, on the locals of the call
\* variant: the loop stops once the funds are depleted
LoopCondition_UntilDepleted(l) == l.i <= PROJECTION_YEARS /\ ~l.fundsDepleted

LoopCondition(l) == l.i <= PROJECTION_YEARS

\* variant: a profile of unknown age counts as retired
IsRetired_UnknownAge(ageKnown, age, retirementAge) == ~ageKnown \/ age >= retirementAge

IsRetired(ageKnown, age, retirementAge) == ageKnown /\ age >= retirementAge

\* variant: the state pension starts the year after STATE_PENSION_AGE
IsStatePensionAge_After(ageKnown, age) == ageKnown /\ age > STATE_PENSION_AGE

IsStatePensionAge(ageKnown, age) == ageKnown /\ age >= STATE_PENSION_AGE

GrowthRate(isRetired) ==
    IF isRetired THEN GROWTH_RATE_DRAWDOWN ELSE GROWTH_RATE_ACCUMULATION

\* variant: growth stops only because the balance is zero
InvestmentGrowth_ByBalance(i, fundsDepleted, pensionPot, growthRate) ==
    IF i > 0 THEN Times(pensionPot, growthRate) ELSE 0

InvestmentGrowth(i, fundsDepleted, pensionPot, growthRate) ==
    IF i > 0 /\ ~fundsDepleted THEN Times(pensionPot, growthRate) ELSE 0

YearContribution(isRetired, stillContributing, annualContribution) ==
    IF ~isRetired /\ stillContributing THEN annualContribution ELSE 0

\* variant: the lump sum is taken on the start-of-year value
LumpSumThisYear_OnStart(justRetired, hasTakenLumpSum, pensionPot, pensionStartOfYear) ==
    IF justRetired /\ ~hasTakenLumpSum /\ pensionPot > 0
    THEN Times(pensionStartOfYear, TAX_FREE_LUMP_SUM_RATE)
    ELSE 0

LumpSumThisYear(justRetired, hasTakenLumpSum, pensionPot, pensionStartOfYear) ==
    IF justRetired /\ ~hasTakenLumpSum /\ pensionPot > 0
    THEN Times(pensionPot, TAX_FREE_LUMP_SUM_RATE)
    ELSE 0

StatePensionThisYear(isStatePensionAge, statePensionBase, i) ==
    IF isStatePensionAge THEN Compound(statePensionBase, INFLATION_RATE, i) ELSE 0

IncomeNeededThisYear(isRetired, annualIncomeNeeded, i) ==
    IF isRetired THEN Compound(annualIncomeNeeded, INFLATION_RATE, i) ELSE 0

\* variant: the depleted flag is recomputed every year
Drawdown_Recomputed(isRetired, fundsDepleted, pensionPot, incomeNeededThisYear, statePensionThisYear) ==
    LET incomeGap == Max(0, incomeNeededThisYear - statePensionThisYear)
    IN  IF isRetired /\ incomeGap > 0
        THEN IF pensionPot >= incomeGap
             THEN [ pensionDrawdown |-> incomeGap, incomeShortfall |-> 0,
                    pensionPot |-> pensionPot - incomeGap, fundsDepleted |-> FALSE,
                    branch |-> "met" ]
             ELSE [ pensionDrawdown |-> pensionPot, incomeShortfall |-> incomeGap - pensionPot,
                    pensionPot |-> 0, fundsDepleted |-> TRUE, branch |-> "short" ]
        ELSE [ pensionDrawdown |-> 0, incomeShortfall |-> 0, pensionPot |-> pensionPot,
               fundsDepleted |-> FALSE, branch |-> "none" ]

\* variant: a pot equal to the income gap counts as running short
Drawdown_StrictCompare(isRetired, fundsDepleted, pensionPot, incomeNeededThisYear, statePensionThisYear) ==
    LET incomeGap == Max(0, incomeNeededThisYear - statePensionThisYear)
    IN  IF isRetired /\ ~fundsDepleted /\ incomeGap > 0
        THEN IF pensionPot > incomeGap
             THEN [ pensionDrawdown |-> incomeGap, incomeShortfall |-> 0,
                    pensionPot |-> pensionPot - incomeGap, fundsDepleted |-> fundsDepleted,
                    branch |-> "met" ]
             ELSE [ pensionDrawdown |-> pensionPot, incomeShortfall |-> incomeGap - pensionPot,
                    pensionPot |-> 0, fundsDepleted |-> TRUE, branch |-> "short" ]
        ELSE [ pensionDrawdown |-> 0, incomeShortfall |-> 0, pensionPot |-> pensionPot,
               fundsDepleted |-> fundsDepleted, branch |-> "none" ]

\* the drawdown block: what it leaves in pensionDrawdown, incomeShortfall,
\* pensionPot and fundsDepleted (branch names the path taken)
Drawdown(isRetired, fundsDepleted, pensionPot, incomeNeededThisYear, statePensionThisYear) ==
    LET incomeGap == Max(0, incomeNeededThisYear - statePensionThisYear)
    IN  IF isRetired /\ ~fundsDepleted /\ incomeGap > 0
        THEN IF pensionPot >= incomeGap
             THEN [ pensionDrawdown |-> incomeGap, incomeShortfall |-> 0,
                    pensionPot |-> pensionPot - incomeGap, fundsDepleted |-> fundsDepleted,
                    branch |-> "met" ]
             ELSE [ pensionDrawdown |-> pensionPot, incomeShortfall |-> incomeGap - pensionPot,
                    pensionPot |-> 0, fundsDepleted |-> TRUE, branch |-> "short" ]
        ELSE [ pensionDrawdown |-> 0, incomeShortfall |-> 0, pensionPot |-> pensionPot,
               fundsDepleted |-> fundsDepleted, branch |-> "none" ]

\* Number(event.f) === v; Number(undefined) is NaN and equals nothing
NumberIs(event, f, v) == f \in DOMAIN event /\ event[f] = v

EventMatches(event, age, year) ==
    NumberIs(event, "event_age", age) \/ NumberIs(event, "event_year", year)

\* the events the forEach callback accepts, in list order
MatchingEvents(ageKnown, age, year, events) ==
    IF ageKnown
    THEN SelectSeq(events, LAMBDA e : EventMatches(e, age, year))
    ELSE <<>>

\* Number(event.cost || 0)
EventCost(event) == NumOr(event, "cost", 0)

RECURSIVE SumCosts(_)
SumCosts(evs) ==
    IF evs = <<>> THEN 0 ELSE EventCost(Head(evs)) + SumCosts(Tail(evs))

LifeEventCost(ageKnown, age, year, events) ==
    SumCosts(MatchingEvents(ageKnown, age, year, events))

LifeEventNames(ageKnown, age, year, events) ==
    LET m == MatchingEvents(ageKnown, age, year, events)
    IN  [k \in 1..Len(m) |-> m[k].event_name]

\* variant: an expense is deducted without the floor
DeductLifeEvents_NoFloor(pensionPot, lifeEventCost) ==
    pensionPot - lifeEventCost

\* variant: a windfall is not credited
DeductLifeEvents_ExpenseOnly(pensionPot, lifeEventCost) ==
    IF lifeEventCost > 0 THEN Max(0, pensionPot - lifeEventCost) ELSE pensionPot

DeductLifeEvents(pensionPot, lifeEventCost) ==
    IF lifeEventCost # 0
    THEN IF lifeEventCost > 0
         THEN Max(0, pensionPot - lifeEventCost)
         ELSE pensionPot - lifeEventCost
    ELSE pensionPot

\* mortgageBalance after the year's paydown
MortgagePaydown(mortgageBalance, annualPayment) ==
    Max(0, mortgageBalance - Times(annualPayment, MORTGAGE_PRINCIPAL_SHARE))

TotalIncome(statePensionThisYear, pensionDrawdown, lumpSumThisYear) ==
    statePensionThisYear + pensionDrawdown + lumpSumThisYear

\* variant: the lump sum is taxed with the rest
TaxableIncome_WithLumpSum(statePensionThisYear, pensionDrawdown, lumpSumThisYear) ==
    statePensionThisYear + pensionDrawdown + lumpSumThisYear

TaxableIncome(statePensionThisYear, pensionDrawdown, lumpSumThisYear) ==
    statePensionThisYear + pensionDrawdown

PropertyEquity(propertyValue, i, mortgageBalance) ==
    IF propertyValue > 0
    THEN Compound(propertyValue, PROPERTY_GROWTH_RATE, i) - mortgageBalance
    ELSE 0

NetWorth(pensionPot, propertyEquity, taxFreeCashReceived) ==
    pensionPot + propertyEquity + taxFreeCashReceived

(***************************************************************************)
(* calculateProjections: one loop iteration, from the locals l of the call  *)
(* on baseData data with the life events events, started on the date td.   *)
(* Gives the locals after the iteration (loc), the iteration's own locals  *)
(* unrounded (yr) and the row pushed to results (row).                     *)
(***************************************************************************)
YearStep(l, data, events, td) ==
    LET i        == l.i
        year     == td.year + i
        ageKnown == HasDob(data)
        age      == IF ageKnown THEN CurrentAge(data, td) + i ELSE 0
        isRetired         == IsRetired(ageKnown, age, RetirementAge(data))
        isStatePensionAge == IsStatePensionAge(ageKnown, age)
        justRetired       == isRetired /\ ~l.hasRetired
        growthRate        == GrowthRate(isRetired)
        pensionStartOfYear == l.pensionPot
        investmentGrowth  == InvestmentGrowth(i, l.fundsDepleted, l.pensionPot, growthRate)
        pot1              == l.pensionPot + investmentGrowth
        yearContribution  == YearContribution(isRetired, StillContributing(data),
                                              AnnualContribution(data))
        pot2              == pot1 + yearContribution
        lumpSumThisYear   == LumpSumThisYear(justRetired, l.hasTakenLumpSum, pot2,
                                             pensionStartOfYear)
        pot3              == pot2 - lumpSumThisYear
        tookLumpSum       == justRetired /\ ~l.hasTakenLumpSum /\ pot2 > 0
        statePensionThisYear == StatePensionThisYear(isStatePensionAge,
                                                     StatePensionBase(data), i)
        incomeNeededThisYear == IncomeNeededThisYear(isRetired, AnnualIncomeNeeded(data), i)
        dd                == Drawdown(isRetired, l.fundsDepleted, pot3,
                                      incomeNeededThisYear, statePensionThisYear)
        lifeEventCost     == LifeEventCost(ageKnown, age, year, events)
        lifeEventNames    == LifeEventNames(ageKnown, age, year, events)
        pot5              == DeductLifeEvents(dd.pensionPot, lifeEventCost)
        annualPayment     == MortgageAnnualPayment(TotalDebt(data))
        mortgagePayment   == Min(l.mortgageBalance, annualPayment)
        mortgageBalance   == MortgagePaydown(l.mortgageBalance, annualPayment)
        totalIncome       == TotalIncome(statePensionThisYear, dd.pensionDrawdown,
                                         lumpSumThisYear)
        taxableIncome     == TaxableIncome(statePensionThisYear, dd.pensionDrawdown,
                                           lumpSumThisYear)
        taxPaid           == calculateUKTax(taxableIncome)
        netIncome         == totalIncome - taxPaid
        propertyEquity    == PropertyEquity(PropertyValue(data), i, mortgageBalance)
        taxFreeCash       == IF tookLumpSum THEN lumpSumThisYear ELSE l.taxFreeCashReceived
        netWorth          == NetWorth(pot5, propertyEquity, taxFreeCash)
    IN  [ loc |->
            [ i                   |-> i + 1,
              pensionPot          |-> pot5,
              mortgageBalance     |-> mortgageBalance,
              hasRetired          |-> isRetired,
              hasTakenLumpSum     |-> l.hasTakenLumpSum \/ tookLumpSum,
              taxFreeCashReceived |-> taxFreeCash,
              cumulativeDrawdown  |-> IF dd.branch = "met"
                                      THEN l.cumulativeDrawdown + dd.pensionDrawdown
                                      ELSE l.cumulativeDrawdown,
              fundsDepleted       |-> dd.fundsDepleted,
              depletionAge        |-> IF dd.branch = "short" /\ l.depletionAge = NULL /\ ageKnown
                                      THEN <<age>> ELSE l.depletionAge ],
          yr |->
            [ i                    |-> i,
              year                 |-> year,
              ageKnown             |-> ageKnown,
              age                  |-> age,
              isRetired            |-> isRetired,
              justRetired          |-> justRetired,
              pensionStartOfYear   |-> pensionStartOfYear,
              investmentGrowth     |-> investmentGrowth,
              yearContribution     |-> yearContribution,
              lumpSumThisYear      |-> lumpSumThisYear,
              potBeforeDrawdown    |-> pot3,
              statePensionThisYear |-> statePensionThisYear,
              incomeNeededThisYear |-> incomeNeededThisYear,
              pensionDrawdown      |-> dd.pensionDrawdown,
              incomeShortfall      |-> dd.incomeShortfall,
              branch               |-> dd.branch,
              potBeforeLifeEvents  |-> dd.pensionPot,
              lifeEventCost        |-> lifeEventCost,
              pensionPot           |-> pot5,
              mortgagePayment      |-> mortgagePayment,
              mortgageBalance      |-> mortgageBalance,
              totalIncome          |-> totalIncome,
              taxableIncome        |-> taxableIncome,
              taxPaid              |-> taxPaid,
              netIncome            |-> netIncome,
              propertyEquity       |-> propertyEquity,
              taxFreeCashReceived  |-> taxFreeCash,
              netWorth             |-> netWorth,
              fundsDepleted        |-> dd.fundsDepleted ],
          row |->
            [ year                |-> year,
              age                 |-> IF ageKnown THEN <<age>> ELSE NULL,
              phase               |-> IF isRetired THEN "Retirement" ELSE "Accumulation",
              pensionStart        |-> Round(pensionStartOfYear),
              pensionTotal        |-> Round(pot5),
              pensionContribution |-> Round(yearContribution),
              investmentGrowth    |-> Round(investmentGrowth),
              pensionDrawdown     |-> Round(dd.pensionDrawdown),
              lumpSum             |-> Round(lumpSumThisYear),
              statePension        |-> Round(statePensionThisYear),
              totalIncome         |-> Round(totalIncome),
              taxes               |-> Round(taxPaid),
              netIncome           |-> Round(netIncome),
              incomeNeeded        |-> Round(incomeNeededThisYear),
              incomeShortfall     |-> Round(dd.incomeShortfall),
              propertyEquity      |-> Round(propertyEquity),
              netWorth            |-> Round(netWorth),
              lifeEvents          |-> lifeEventNames,
              lifeEventCost       |-> Round(lifeEventCost),
              fundsDepleted       |-> dd.fundsDepleted ] ]

\* the locals after the first n iterations of a call on data and events
RECURSIVE LocalsAfter(_, _, _, _)
LocalsAfter(n, data, events, td) ==
    IF n = 0 THEN InitialLocals(data)
    ELSE YearStep(LocalsAfter(n - 1, data, events, td), data, events, td).loc

(***************************************************************************)
(* Inputs                                                                   *)
(***************************************************************************)
MaxEvents == 2

Todays == { [year |-> 2026, month |-> 11, day |-> 4] }

Dobs == { [year |-> 1966, month |-> 6,  day |-> 15],     \* aged 60
          [year |-> 1964, month |-> 12, day |-> 25],     \* aged 61, birthday to come
          [year |-> 1955, month |-> 1,  day |-> 1] }     \* aged 71

Without(r, f) == [k \in DOMAIN r \ {f} |-> r[k]]

ProfilesWithDob ==
    { [ date_of_birth          |-> dob,
        planned_retirement_age |-> ra,
        total_pension_value    |-> pot,
        monthly_contribution   |-> mc,
        still_contributing     |-> mc # 0,
        lump_sum_taken         |-> lst ] :
      dob \in Dobs, ra \in {0, 61}, pot \in {0, Pounds(25000), 192307693},
      mc \in {0, Pounds(500)}, lst \in BOOLEAN }

\* profiles that carry the remaining properties, or an odd value
ExtraProfiles ==
    LET aged36 == [year |-> 1990, month |-> 3, day |-> 1]
        aged60 == [year |-> 1966, month |-> 6, day |-> 15]
        aged71 == [year |-> 1955, month |-> 1, day |-> 1]
    IN  { \* retirement is beyond the horizon
          [ date_of_birth |-> aged36, total_pension_value |-> Pounds(100000),
            monthly_contribution |-> Pounds(500), still_contributing |-> TRUE ],
          [ date_of_birth |-> aged36, total_pension_value |-> Pounds(100000) ],
          \* a negative retirement age
          [ date_of_birth |-> aged60, planned_retirement_age |-> 0 - 5,
            total_pension_value |-> Pounds(25000) ],
          \* property and debt
          [ date_of_birth |-> aged60, planned_retirement_age |-> 61,
            total_pension_value |-> Pounds(100000),
            property_value |-> Pounds(300000), total_debt |-> Pounds(100000) ],
          [ date_of_birth |-> aged60, planned_retirement_age |-> 61,
            total_pension_value |-> Pounds(100000),
            total_debt |-> Pounds(100000) ],
          [ date_of_birth |-> aged60, planned_retirement_age |-> 61,
            total_pension_value |-> Pounds(100000),
            property_value |-> Pounds(300000) ],
          \* works past the state-pension age, with a state pension of its own
          [ date_of_birth |-> aged60, planned_retirement_age |-> 70,
            total_pension_value |-> Pounds(100000), monthly_contribution |-> Pounds(500),
            state_pension_amount |-> Pounds(9000), annual_income_needed |-> Pounds(40000) ],
          \* needs less than the state pension pays
          [ date_of_birth |-> aged71, total_pension_value |-> Pounds(25000),
            annual_income_needed |-> Pounds(5000), lump_sum_taken |-> TRUE ],
          \* a large pot, drawn heavily
          [ date_of_birth |-> aged71, total_pension_value |-> Pounds(800000),
            annual_income_needed |-> Pounds(90000) ] }

\* every profile, and some of them with no date of birth
Profiles ==
    ProfilesWithDob \cup ExtraProfiles \cup
    { Without(p, "date_of_birth") : p \in { q \in ProfilesWithDob : q.date_of_birth.year = 1966 } }

EventTemplates ==
    << [event_name |-> "Inheritance", event_age |-> 70, cost |-> Pounds(0 - 20000)],
       [event_name |-> "House",       event_age |-> 65, cost |-> Pounds(300000)],
       [event_name |-> "Car",         event_age |-> 70, cost |-> Pounds(5000)],
       [event_name |-> "Wedding",     event_age |-> 63, event_year |-> 2031, cost |-> Pounds(8000)],
       [event_name |-> "Bonus",       event_age |-> 75, cost |-> Pounds(0 - 1000)] >>

\* the lists of at most MaxEvents distinct events, in the order of EventTemplates
EventLists ==
    LET idx == { s \in SUBSET (1..Len(EventTemplates)) : Cardinality(s) <= MaxEvents }
        RECURSIVE AsSeq(_)
        AsSeq(s) == IF s = {} THEN <<>>
                    ELSE LET m == CHOOSE x \in s : \A y \in s : x <= y
                         IN  <<EventTemplates[m]>> \o AsSeq(s \ {m})
    IN  { AsSeq(s) : s \in idx }

(***************************************************************************)
(* Actions                                                                  *)
(***************************************************************************)
\* calculateProjections(data, events) up to the loop
Invoke(data, events) ==
    /\ pc = "idle"
    /\ args' = [data |-> data, events |-> events]
    /\ LET bd == IF data # NULL THEN data ELSE lastBaseData
       IN  IF bd = NULL
           THEN UNCHANGED <<lastBaseData, projections, pc, baseData, loc, yr, results>>
           ELSE /\ lastBaseData' = IF data # NULL THEN data ELSE lastBaseData
                /\ baseData' = bd
                /\ loc' = InitialLocals(bd)
                /\ yr' = NULL
                /\ results' = <<>>
                /\ pc' = "loop"
                /\ UNCHANGED projections
    /\ UNCHANGED <<today, taxIn, taxOut, snap>>
    /\ UNCHANGED uiVars

\* one iteration of for (let i = 0; i <= PROJECTION_YEARS; i++)
LoopIteration ==
    /\ pc = "loop"
    /\ LoopCondition(loc)
    /\ LET s == YearStep(loc, baseData, args.events, today)
       IN  /\ loc' = s.loc
           /\ yr' = s.yr
           /\ results' = Append(results, s.row)
    /\ UNCHANGED <<today, lastBaseData, projections, pc, args, baseData, taxIn, taxOut, snap>>
    /\ UNCHANGED uiVars

\* loop exit: setProjections(results)
Finish ==
    /\ pc = "loop"
    /\ ~LoopCondition(loc)
    /\ projections' = results
    /\ pc' = "idle"
    /\ UNCHANGED <<today, lastBaseData, args, baseData, loc, yr, results, taxIn, taxOut, snap>>
    /\ UNCHANGED uiVars

\* the first call of a session, from the dashboard or the chat
InvokeFirst ==
    /\ args = NULL
    /\ \E data \in Profiles, events \in EventLists : Invoke(data, events)

\* useState(...) and useRef(...) of the App component, and the proxy at start
\* session.user of a signed-in session
SignedInUser == [id |-> "u1", email |-> "u1@example.org"]

DefaultAssumptions == [inflation |-> INFLATION_RATE, planningHorizon |-> 90]

InitialChat ==
    /\ messages = <<>>
    /\ inputText = ""
    /\ isLoading = FALSE
    /\ user = NULL
    /\ showAuth = FALSE
    /\ chatFetches = <<>>

InitialSync ==
    /\ userSyncingRef = FALSE
    /\ upserts = <<>>

InitialProxy ==
    /\ apiKey = TRUE
    /\ proxyCalls = <<>>

InitialAsync ==
    /\ assumptions = DefaultAssumptions
    /\ lifeEvents = <<>>
    /\ plannedRetirementAge = DEFAULT_RETIREMENT_AGE
    /\ projectionFetches = <<>>

InitialUi == InitialChat /\ InitialSync /\ InitialProxy /\ InitialAsync

InitialEngine ==
    /\ today \in Todays
    /\ lastBaseData = NULL
    /\ projections = NULL
    /\ pc = "idle"
    /\ args = NULL
    /\ baseData = NULL
    /\ loc = NULL
    /\ yr = NULL
    /\ results = <<>>
    /\ taxIn = NULL
    /\ taxOut = NULL
    /\ snap = NULL

Init == InitialEngine /\ InitialUi

Next == InvokeFirst \/ LoopIteration \/ Finish

Spec == Init /\ [][Next]_vars

(***************************************************************************)
(* Properties of one run of calculateProjections (specification Spec)       *)
(***************************************************************************)
Rows == 1..Len(results)

HasRow == yr # NULL /\ Len(results) > 0

\* the income gap of the iteration that ran last
IncomeGap == Max(0, yr.incomeNeededThisYear - yr.statePensionThisYear)

\* row k is the row in which fundsDepleted goes from false to true
DepletionRow(k) ==
    results[k].fundsDepleted /\ (k = 1 \/ ~results[k - 1].fundsDepleted)

\* C1: every row emitted has an end-of-year pension pot (pensionTotal) >= 0,
\* for every profile with non-negative currency fields and any life events;
\* the unrounded pot is >= 0 as well.
C1_PotNonNegative ==
    /\ \A k \in Rows : results[k].pensionTotal >= 0
    /\ HasRow => yr.pensionPot >= 0

\* a row in which a life-event expense was larger than the pot it met
C1_Witness ==
    /\ HasRow
    /\ yr.lifeEventCost > yr.potBeforeLifeEvents
    /\ yr.potBeforeLifeEvents > 0
    /\ results[Len(results)].pensionTotal = 0

\* C2: once a row has fundsDepleted = true, every later row of the run has
\* fundsDepleted = true, whatever life events occur afterwards.
C2_DepletedSticky ==
    \A j, k \in Rows : j < k /\ results[j].fundsDepleted => results[k].fundsDepleted

\* a windfall credited in a row after the depletion row, the flag still set
C2_Witness ==
    \E j, k \in Rows :
        /\ j < k
        /\ results[j].fundsDepleted
        /\ results[k].lifeEventCost < 0
        /\ results[k].pensionTotal > 0
        /\ results[k].fundsDepleted

\* C3: for every row, on unrounded values, pot end = pot start + growth +
\* contribution - lump sum - drawdown - lifeEventCost, also when a life-event
\* expense is larger than the pot available that year.
C3_Conservation ==
    HasRow =>
        yr.pensionPot = yr.pensionStartOfYear + yr.investmentGrowth + yr.yearContribution
                        - yr.lumpSumThisYear - yr.pensionDrawdown - yr.lifeEventCost

\* C4: after the first row in which fundsDepleted is true, the pot is 0 at
\* the end of every later row of the run.
C4_PotZeroAfterDepletion ==
    /\ \A j, k \in Rows : j < k /\ results[j].fundsDepleted => results[k].pensionTotal = 0
    /\ HasRow /\ Len(results) > 1 /\ results[Len(results) - 1].fundsDepleted
         => yr.pensionPot = 0

\* C5: a run has at most one row in which fundsDepleted goes from false to
\* true, a retired row whose income gap exceeds the pot before funds were
\* depleted is that row, and on it the unrounded incomeShortfall is > 0 and
\* the drawdown is the whole balance available before the drawdown step.
C5_DepletionRow ==
    /\ \A j, k \in Rows : DepletionRow(j) /\ DepletionRow(k) => j = k
    /\ HasRow =>
        /\ ( /\ yr.isRetired
             /\ IncomeGap > yr.potBeforeDrawdown
             /\ \A j \in Rows : j < Len(results) => ~results[j].fundsDepleted )
           => DepletionRow(Len(results))
        /\ DepletionRow(Len(results)) =>
             /\ yr.incomeShortfall > 0
             /\ yr.pensionDrawdown = yr.potBeforeDrawdown
             /\ yr.isRetired
             /\ IncomeGap > yr.potBeforeDrawdown

\* the depletion row, reached after some years of drawdown
C5_Witness ==
    /\ HasRow
    /\ Len(results) > 1
    /\ DepletionRow(Len(results))
    /\ ~results[Len(results) - 1].fundsDepleted
    /\ results[Len(results) - 1].phase = "Retirement"
    /\ yr.pensionDrawdown > 0
    /\ yr.incomeShortfall > 0

\* the row in which the profile passes from Accumulation to Retirement
TransitionRow == HasRow /\ yr.i > 0 /\ yr.justRetired

\* C9: in the row where the profile passes from Accumulation to Retirement
\* with lump_sum_taken false, the lump sum is TAX_FREE_LUMP_SUM_RATE of the pot
\* after that year's growth, it leaves the pot before the drawdown is
\* computed, and a pot of 200,000 gives a lump sum of 50,000.
C9_LumpSumAtRetirement ==
    TransitionRow /\ ~LumpSumTaken(baseData) =>
        LET potAfterGrowth == yr.pensionStartOfYear + yr.investmentGrowth
        IN  /\ results[Len(results) - 1].phase = "Accumulation"
            /\ yr.lumpSumThisYear = Times(potAfterGrowth, TAX_FREE_LUMP_SUM_RATE)
            /\ yr.potBeforeDrawdown = potAfterGrowth - yr.lumpSumThisYear
            /\ yr.pensionDrawdown = Min(IncomeGap, yr.potBeforeDrawdown)
            /\ potAfterGrowth = Pounds(200000) => yr.lumpSumThisYear = Pounds(50000)

\* the pot stands at 200,000 after growth in the transition row
C9_Witness ==
    /\ TransitionRow
    /\ ~LumpSumTaken(baseData)
    /\ yr.pensionStartOfYear + yr.investmentGrowth = Pounds(200000)
    /\ yr.investmentGrowth > 0
    /\ yr.lumpSumThisYear = Pounds(50000)
    /\ yr.pensionDrawdown > 0

\* events with the k-th element removed
RemoveAt(events, k) ==
    [j \in 1..(Len(events) - 1) |-> IF j < k THEN events[j] ELSE events[j + 1]]

\* the k-th event of the call is a windfall given by age alone, it falls in
\* the row that ran last, and no other event falls in that row
LoneWindfall(k) ==
    LET e == args.events[k]
    IN  /\ HasRow
        /\ yr.ageKnown
        /\ "event_age" \in DOMAIN e
        /\ "event_year" \notin DOMAIN e
        /\ e.event_age = yr.age
        /\ e.cost < 0
        /\ MatchingEvents(yr.ageKnown, yr.age, yr.year, args.events) = <<e>>

\* the pot at the end of the row that ran last, had the call been made
\* without its k-th event
PotWithout(k) ==
    LET evs == RemoveAt(args.events, k)
    IN  YearStep(LocalsAfter(yr.i, baseData, evs, today), baseData, evs, today).yr.pensionPot

\* C10: one life event of negative amount -W at an age inside the horizon,
\* alone in its year, makes that row's end-of-year pot exactly W larger than
\* in the same run without the event.
C10_Windfall ==
    \A k \in 1..(IF args = NULL THEN 0 ELSE Len(args.events)) :
        LoneWindfall(k) =>
            /\ yr.pensionPot = PotWithout(k) - args.events[k].cost
            /\ results[Len(results)].pensionTotal
                 = Round(PotWithout(k)) - args.events[k].cost \div 1000

\* a windfall of 20,000 at age 70 credited to a pot that was not empty
C10_Witness ==
    \E k \in 1..(IF args = NULL THEN 0 ELSE Len(args.events)) :
        /\ LoneWindfall(k)
        /\ args.events[k].cost = Pounds(0 - 20000)
        /\ yr.age = 70
        /\ PotWithout(k) > 0
        /\ yr.pensionPot = PotWithout(k) + Pounds(20000)

(***************************************************************************)
(* calculateUKTax on its own (specification SpecTax): a pair of incomes is  *)
(* drawn and the function is applied to both                                *)
(***************************************************************************)
MaxIncomeSteps == 12

\* the band edges and their neighbours, and a grid of 12,500 steps
Incomes ==
    { Pounds(n) : n \in { 0, 1, 12570, 12571, 50270, 50271, 100000, 100001, 100002,
                          125139, 125140, 125141 } }
    \cup { Pounds(12500) * k : k \in 0..MaxIncomeSteps }
    \cup { 12570500, 100000001, 1000000000 }

InitTax ==
    /\ today \in Todays
    /\ lastBaseData = NULL
    /\ projections = NULL
    /\ pc = "idle"
    /\ args = NULL
    /\ baseData = NULL
    /\ loc = NULL
    /\ yr = NULL
    /\ results = <<>>
    /\ taxIn \in Incomes \X Incomes
    /\ taxOut = NULL
    /\ snap = NULL
    /\ InitialUi

ComputeTax ==
    /\ taxIn # NULL
    /\ taxOut = NULL
    /\ taxOut' = <<calculateUKTax(taxIn[1]), calculateUKTax(taxIn[2])>>
    /\ UNCHANGED <<today, lastBaseData, projections, pc, args, baseData, loc, yr,
                   results, taxIn, snap>>
    /\ UNCHANGED uiVars

NextTax == ComputeTax

SpecTax == InitTax /\ [][NextTax]_vars

\* C7: calculateUKTax is monotone non-decreasing in the income, the taper
\* zone above 100,000 included, and the tax of 0 is 0.
C7_TaxMonotone ==
    taxOut # NULL =>
        /\ taxIn[1] < taxIn[2] => taxOut[1] <= taxOut[2]
        /\ taxIn[1] = 0 => taxOut[1] = 0

\* two incomes on either side of the point where the allowance is used up
C7_Witness ==
    /\ taxOut # NULL
    /\ taxIn[1] > TAPER_THRESHOLD
    /\ taxIn[1] <= HIGHER_RATE_THRESHOLD
    /\ taxIn[2] > HIGHER_RATE_THRESHOLD
    /\ taxOut[1] > 0
    /\ taxOut[1] < taxOut[2]

\* C8: an income of 50,270 is taxed (50,270 - 12,570) x 0.20, and an income
\* 1 higher exactly 1 x 0.40 more (a whole pound times a rate per mille is
\* an amount in thousandths of a pound).
C8_BasicBandEdge ==
    taxOut # NULL /\ taxIn[1] = BASIC_RATE_THRESHOLD =>
        /\ taxOut[1] = (50270 - 12570) * BASIC_TAX_RATE
        /\ taxIn[2] = BASIC_RATE_THRESHOLD + Pounds(1) =>
             taxOut[2] - taxOut[1] = 1 * HIGHER_TAX_RATE

\* the taxes of 50,270 and 50,271: 7,540 and 7,540.40
C8_Witness ==
    /\ taxOut # NULL
    /\ taxIn = <<Pounds(50270), Pounds(50271)>>
    /\ taxOut = <<Pounds(7540), Pounds(7540) + 400>>

(***************************************************************************)
(* A session of several calls of calculateProjections (specification       *)
(* SpecSession).  snap remembers one finished call, picked freely, so that  *)
(* a later call with the same arguments can be compared with it.           *)
(***************************************************************************)
SessionProfiles ==
    { p \in ProfilesWithDob :
        /\ p.date_of_birth.year = 1964
        /\ p.planned_retirement_age = 61
        /\ p.monthly_contribution = 0
        /\ p.lump_sum_taken
        /\ p.total_pension_value \in {0, Pounds(25000)} }

SessionEventLists == { evs \in EventLists : Len(evs) = 0 \/ (Len(evs) = 1 /\ evs[1].event_name = "Inheritance") }

\* any caller: persistLifeEventData passes null for data
InvokeAny ==
    \E data \in SessionProfiles \cup {NULL}, events \in SessionEventLists :
        Invoke(data, events)

Observe ==
    /\ pc = "idle"
    /\ args # NULL
    /\ snap = NULL
    /\ snap' = [args |-> args, out |-> projections]
    /\ UNCHANGED <<today, lastBaseData, projections, pc, args, baseData, loc, yr,
                   results, taxIn, taxOut>>
    /\ UNCHANGED uiVars

NextSession == InvokeAny \/ LoopIteration \/ Finish \/ Observe

SpecSession == Init /\ [][NextSession]_vars

\* C6: two calls with the same data and the same life events leave the same
\* rows in projections, whatever an earlier call left behind.
C6_FunctionOfInputs ==
    pc = "idle" /\ snap # NULL /\ args = snap.args => projections = snap.out

(***************************************************************************)
(* Further properties of one run (specification Spec)                       *)
(***************************************************************************)
\* the planned retirement age is not reached in any row of the run
NeverRetires ==
    \/ ~HasDob(baseData)
    \/ CurrentAge(baseData, today) + PROJECTION_YEARS < RetirementAge(baseData)

\* no life event of the call is an expense
NoExpenses == \A k \in 1..Len(args.events) : EventCost(args.events[k]) <= 0

\* C11: when the planned retirement age is never reached within the horizon
\* and no life event is an expense, every row has phase = Accumulation and
\* drawdown = 0, and the end-of-year pot never decreases from row to row.
C11_PureAccumulation ==
    baseData # NULL /\ NeverRetires /\ NoExpenses =>
        /\ \A k \in Rows : /\ results[k].phase = "Accumulation"
                           /\ results[k].pensionDrawdown = 0
        /\ \A k \in Rows : k > 1 => results[k - 1].pensionTotal <= results[k].pensionTotal
        /\ HasRow => /\ yr.pensionDrawdown = 0
                     /\ yr.pensionPot >= yr.pensionStartOfYear

\* a contributing profile aged 36 at the end of its 31 rows, the pot grown
C11_Witness ==
    /\ baseData # NULL
    /\ HasDob(baseData)
    /\ NeverRetires
    /\ NoExpenses
    /\ Len(results) = PROJECTION_YEARS + 1
    /\ yr.yearContribution > 0
    /\ yr.investmentGrowth > 0
    /\ results[Len(results)].pensionTotal > results[1].pensionTotal

(***************************************************************************)
(* The run under the scheduling of a synchronous function: an iteration    *)
(* that can run does run, and so does the loop exit (specification         *)
(* SpecLive)                                                                *)
(***************************************************************************)
LiveProfiles ==
    { p \in ProfilesWithDob :
        /\ p.date_of_birth.year \in {1964, 1966}
        /\ p.planned_retirement_age = 61
        /\ p.monthly_contribution = 0
        /\ ~p.lump_sum_taken
        /\ p.total_pension_value \in {Pounds(25000), 192307693} }
    \cup { Without(p, "date_of_birth") : p \in
              { q \in ProfilesWithDob : /\ q.date_of_birth.year = 1966
                                        /\ q.planned_retirement_age = 61
                                        /\ q.monthly_contribution # 0
                                        /\ ~q.lump_sum_taken
                                        /\ q.total_pension_value = Pounds(25000) } }

LiveEventLists ==
    { evs \in EventLists : Len(evs) = 0 \/ (Len(evs) = 1 /\ evs[1].event_name = "Inheritance") }

InvokeLive ==
    /\ args = NULL
    /\ \E data \in LiveProfiles, events \in LiveEventLists : Invoke(data, events)

NextLive == InvokeLive \/ LoopIteration \/ Finish

SpecLive == Init /\ [][NextLive]_vars /\ WF_vars(LoopIteration) /\ WF_vars(Finish)

\* one row per year of the horizon, the years consecutive from the current one
RowsComplete(rows) ==
    /\ Len(rows) = PROJECTION_YEARS + 1
    /\ \A k \in 1..Len(rows) : rows[k].year = today.year + (k - 1)

\* C12: every call terminates, and what it leaves in projections is one row
\* per simulated year, PROJECTION_YEARS + 1 rows of consecutive years from
\* the current year, whether or not the funds deplete during the run.
C12_TerminatesWithAllRows ==
    (pc = "loop") ~> (pc = "idle" /\ projections = results /\ RowsComplete(projections))

\* a finished run in which the funds depleted before the last row
C12_Witness ==
    /\ pc = "idle"
    /\ projections # NULL
    /\ Len(projections) = PROJECTION_YEARS + 1
    /\ projections[2].fundsDepleted
    /\ projections[PROJECTION_YEARS + 1].year = today.year + PROJECTION_YEARS

(***************************************************************************)
(* Defaults, validation, shortfall, lump sum and life events by year        *)
(* (specification Spec)                                                     *)
(***************************************************************************)
Absent(f) == baseData # NULL /\ f \notin DOMAIN baseData

\* C13: every currency field that is absent from the profile is treated as
\* 0 (pot, monthly contribution, annual income needed, property value, total
\* debt); a retired profile with no annual income needed has drawdown = 0 in
\* every row.
C13_AbsentFieldsAreZero ==
    HasRow =>
        /\ Absent("total_pension_value") /\ yr.i = 0 => yr.pensionStartOfYear = 0
        /\ Absent("monthly_contribution") => yr.yearContribution = 0
        /\ Absent("property_value") /\ Absent("total_debt") => yr.propertyEquity = 0
        /\ Absent("total_debt") => yr.mortgageBalance = 0
        /\ Absent("annual_income_needed") =>
             /\ yr.incomeNeededThisYear = 0
             /\ yr.pensionDrawdown = 0

\* C14: a retirement age below the minimum bound (a negative one) ends the
\* call in a validation error and no projection row is emitted.
C14_RejectsBadRetirementAge ==
    baseData # NULL /\ RetirementAge(baseData) < 0 =>
        /\ results = <<>>
        /\ projections = NULL

\* C15: in every Retirement row drawdown + incomeShortfall is the required
\* drawdown of the year, max(0, incomeNeeded x (1+inflation)^i -
\* statePension_i); after the funds have depleted the shortfall is all of it.
C15_ShortfallIsUnmetGap ==
    HasRow /\ yr.isRetired =>
        /\ yr.pensionDrawdown + yr.incomeShortfall = IncomeGap
        /\ Len(results) > 1 /\ results[Len(results) - 1].fundsDepleted =>
             yr.incomeShortfall = IncomeGap

\* the profile is at or past its planned retirement age in the first row
RetiredAtStart ==
    /\ baseData # NULL
    /\ HasDob(baseData)
    /\ CurrentAge(baseData, today) >= RetirementAge(baseData)

\* C16: a lump sum is taken only in the first Retirement row after an
\* Accumulation row, at most once per run and never when lump_sum_taken is
\* true; a profile at or past its retirement age in the first row is retired
\* from the start and has lumpSum = 0 in every row.
C16_LumpSumOnlyAtTransition ==
    /\ HasRow /\ yr.lumpSumThisYear > 0 =>
         /\ yr.i > 0
         /\ results[Len(results)].phase = "Retirement"
         /\ results[Len(results) - 1].phase = "Accumulation"
         /\ ~LumpSumTaken(baseData)
         /\ \A j \in Rows : j < Len(results) => results[j].lumpSum = 0
    /\ RetiredAtStart =>
         \A k \in Rows : results[k].phase = "Retirement" /\ results[k].lumpSum = 0

\* the events of the call whose event_year is the year of the row that ran last
EventsOfTheYear ==
    SelectSeq(args.events, LAMBDA e : NumberIs(e, "event_year", yr.year))

\* C17: with no date of birth, a life event whose event_year is the calendar
\* year of a row is applied to the pot in that row and reported in it.
C17_EventsByYearWithoutAge ==
    HasRow /\ ~yr.ageKnown /\ EventsOfTheYear # <<>> =>
        /\ results[Len(results)].lifeEvents
             = [k \in 1..Len(EventsOfTheYear) |-> EventsOfTheYear[k].event_name]
        /\ yr.lifeEventCost = SumCosts(EventsOfTheYear)
        /\ yr.pensionPot = DeductLifeEvents(yr.potBeforeLifeEvents, SumCosts(EventsOfTheYear))

\* C18: in every row propertyEquity = propertyValue x (1+propertyGrowth)^i -
\* outstanding debt and netWorth = end-of-year pot + propertyEquity + lump
\* sum received so far, for every property value (0 included) and debt.
C18_DebtReducesNetWorth ==
    HasRow =>
        /\ yr.propertyEquity
             = Compound(PropertyValue(baseData), PROPERTY_GROWTH_RATE, yr.i) - yr.mortgageBalance
        /\ yr.netWorth = yr.pensionPot + yr.propertyEquity + yr.taxFreeCashReceived

\* C19: in every row totalIncome = statePension + drawdown + lumpSum, the tax
\* is that of statePension + drawdown alone, and netIncome = totalIncome -
\* tax with netIncome >= lumpSum >= 0.
C19_IncomeAndTax ==
    HasRow =>
        /\ yr.totalIncome = yr.statePensionThisYear + yr.pensionDrawdown + yr.lumpSumThisYear
        /\ yr.taxPaid = calculateUKTax(yr.statePensionThisYear + yr.pensionDrawdown)
        /\ yr.netIncome = yr.totalIncome - yr.taxPaid
        /\ yr.netIncome >= yr.lumpSumThisYear
        /\ yr.lumpSumThisYear >= 0

\* the row of a retirement at 67: lump sum, state pension, drawdown and tax
C19_Witness ==
    /\ HasRow
    /\ yr.lumpSumThisYear > 0
    /\ yr.statePensionThisYear > 0
    /\ yr.pensionDrawdown > 0
    /\ yr.taxPaid > 0
    /\ yr.netIncome > yr.lumpSumThisYear

\* C20: state-pension income is non-zero only when the age is known and
\* >= STATE_PENSION_AGE, whatever the planned retirement age, and it is then
\* statePensionBase x (1+inflation)^i.
C20_StatePensionByAge ==
    HasRow =>
        /\ yr.statePensionThisYear # 0 => yr.ageKnown /\ yr.age >= STATE_PENSION_AGE
        /\ yr.ageKnown /\ yr.age >= STATE_PENSION_AGE =>
             /\ yr.statePensionThisYear
                  = Compound(StatePensionBase(baseData), INFLATION_RATE, yr.i)
             /\ results[Len(results)].statePension = Round(yr.statePensionThisYear)
        /\ ~(yr.ageKnown /\ yr.age >= STATE_PENSION_AGE) =>
             results[Len(results)].statePension = 0

\* an Accumulation row at age 67, the state pension of 9,000 paid in it
C20_Witness ==
    /\ HasRow
    /\ ~yr.isRetired
    /\ yr.age = STATE_PENSION_AGE
    /\ yr.i > 0
    /\ StatePensionBase(baseData) = Pounds(9000)
    /\ yr.statePensionThisYear > Pounds(9000)
    /\ results[Len(results) - 1].statePension = 0

(***************************************************************************)
(* The additional rate (specification SpecTax)                              *)
(***************************************************************************)
\* C21: the 45% additional rate is charged only on income over 125,140: for
\* every income <= HIGHER_RATE_THRESHOLD no slice of it reaches the
\* additional-rate step, and the tax is the basic-rate slice at 20% plus the
\* rest of the taxable income at 40%.
C21_AdditionalRateOnlyAbove ==
    taxOut # NULL /\ taxIn[1] > PERSONAL_ALLOWANCE /\ taxIn[1] <= HIGHER_RATE_THRESHOLD =>
        LET taxable == taxIn[1] - EffectiveAllowance(taxIn[1])
        IN  /\ AdditionalSlice(taxIn[1]) = 0
            /\ taxOut[1] = Times(BasicBand(taxable), BASIC_TAX_RATE)
                             + Times(taxable - BasicBand(taxable), HIGHER_TAX_RATE)

(***************************************************************************)
(* Growth after depletion and one-off life events (specification Spec)      *)
(***************************************************************************)
\* C22: in every row after the row in which the funds depleted,
\* investmentGrowth is 0, also when a windfall has made the balance positive
\* again.
C22_NoGrowthAfterDepletion ==
    /\ \A j, k \in Rows : j < k /\ results[j].fundsDepleted => results[k].investmentGrowth = 0
    /\ HasRow /\ Len(results) > 1 /\ results[Len(results) - 1].fundsDepleted
         => /\ yr.investmentGrowth = 0
            /\ yr.potBeforeDrawdown = yr.pensionStartOfYear

\* a row after the depletion row that starts with a positive balance (the
\* windfall of the year before) and has no growth
C22_Witness ==
    /\ HasRow
    /\ Len(results) > 2
    /\ results[Len(results) - 1].fundsDepleted
    /\ results[Len(results) - 1].lifeEventCost < 0
    /\ yr.pensionStartOfYear > 0
    /\ yr.investmentGrowth = 0

\* the rows in whose lifeEvents the event of that name is reported
RowsApplying(name) ==
    { j \in Rows : \E n \in 1..Len(results[j].lifeEvents) : results[j].lifeEvents[n] = name }

\* C23: within one run each supplied life event is a one-off: its cost is
\* applied in at most one row, also when the event carries both an event_age
\* and an event_year.
C23_EventAppliedOnce ==
    args # NULL =>
        \A k \in 1..Len(args.events) :
            Cardinality(RowsApplying(args.events[k].event_name)) <= 1

(***************************************************************************)
(* The dashboard's asynchronous calculateProjections (src/server.js), which *)
(* posts the inputs to the projections API and stores the rows of the       *)
(* response (specification SpecAsync).  The API is a function of the        *)
(* request body; its rows are kept as the body they were computed from.     *)
(***************************************************************************)
MaxFetches == 3

\* the profile fetchAllUserData returns, the ages the chart offers, the
\* values typed into the inflation assumption, the life_events rows selected
SavedProfiles ==
    { p \in ProfilesWithDob :
        /\ p.date_of_birth.year = 1966
        /\ p.planned_retirement_age = 61
        /\ p.total_pension_value = Pounds(25000)
        /\ p.monthly_contribution = 0
        /\ ~p.lump_sum_taken }

ChartAges == {60, 65}

InflationValues == {INFLATION_RATE, 30}

SelectedEvents == { <<EventTemplates[3]>> }

\* JSON body of the POST to /api/projections
ProjectionsBody(data, events, assumptionsToUse) ==
    [data |-> data, events |-> events, assumptions |-> assumptionsToUse]

\* result.projections of the response to a request with that body
ApiProjections(body) == << [computedFrom |-> body] >>

\* calculateProjections(data, events, customAssumptions) up to its await
CalculateProjectionsCall(caller, data, events, customAssumptions) ==
    LET base == IF data # NULL THEN data ELSE lastBaseData
        assumptionsToUse == IF customAssumptions # NULL THEN customAssumptions
                            ELSE assumptions
    IN  IF base = NULL
        THEN UNCHANGED <<lastBaseData, plannedRetirementAge, projectionFetches>>
        ELSE /\ lastBaseData' = (IF data # NULL THEN data ELSE lastBaseData)
             /\ plannedRetirementAge' = RetirementAge(base)
             /\ projectionFetches' =
                  Append(projectionFetches,
                         [caller |-> caller,
                          body   |-> ProjectionsBody(base, events, assumptionsToUse),
                          state  |-> "pending"])

CanFetch == Len(projectionFetches) < MaxFetches

\* handleDashboardClick once fetchAllUserData has returned the saved profile
\* and life events (the rows that lifeEvents mirrors): it calls
\* calculateProjections(payload, results.life_events || [])
handleDashboardClick ==
    /\ CanFetch
    /\ user # NULL
    /\ \E payload \in SavedProfiles :
         CalculateProjectionsCall("dashboard", payload, lifeEvents, NULL)
    /\ UNCHANGED <<assumptions, lifeEvents>>
    /\ UNCHANGED <<today, projections, pc, args, baseData, loc, yr, results, taxIn,
                   taxOut, snap, chatVars, syncVars, proxyVars>>

handleRetirementAgeChange ==
    /\ CanFetch
    /\ lastBaseData # NULL
    /\ \E newAge \in ChartAges :
         /\ newAge # plannedRetirementAge
         /\ CalculateProjectionsCall("retirementAge",
                                     [lastBaseData EXCEPT !.planned_retirement_age = newAge],
                                     lifeEvents, assumptions)
    /\ UNCHANGED <<assumptions, lifeEvents>>
    /\ UNCHANGED <<today, projections, pc, args, baseData, loc, yr, results, taxIn,
                   taxOut, snap, chatVars, syncVars, proxyVars>>

handleAssumptionChange ==
    /\ CanFetch
    /\ \E value \in InflationValues :
         LET newAssumptions == [assumptions EXCEPT !.inflation = value]
         IN  /\ assumptions' = newAssumptions
             /\ IF lastBaseData # NULL
                THEN CalculateProjectionsCall("assumption", lastBaseData, lifeEvents,
                                              newAssumptions)
                ELSE UNCHANGED <<lastBaseData, plannedRetirementAge, projectionFetches>>
    /\ UNCHANGED lifeEvents
    /\ UNCHANGED <<today, projections, pc, args, baseData, loc, yr, results, taxIn,
                   taxOut, snap, chatVars, syncVars, proxyVars>>

\* persistLifeEventData after its insert and select have returned
persistLifeEventData ==
    /\ CanFetch
    /\ user # NULL
    /\ \E allEvents \in SelectedEvents :
         /\ lifeEvents # allEvents
         /\ lifeEvents' = allEvents
         /\ CalculateProjectionsCall("lifeEvent", NULL, allEvents, NULL)
    /\ UNCHANGED assumptions
    /\ UNCHANGED <<today, projections, pc, args, baseData, loc, yr, results, taxIn,
                   taxOut, snap, chatVars, syncVars, proxyVars>>

WelcomeBack == [role |-> "assistant", kind |-> "welcome"]

\* the rest of calculateProjections once the fetch of call k has settled
\* (rows in the response, an OK response without rows, or a failure), and
\* the rest of the caller that awaited it
ProjectionsResponse ==
    /\ \E k \in 1..Len(projectionFetches), kind \in {"rows", "norows", "failed"} :
         /\ projectionFetches[k].state = "pending"
         /\ projectionFetches' = [projectionFetches EXCEPT ![k].state = kind]
         /\ projections' = CASE kind = "rows"   -> ApiProjections(projectionFetches[k].body)
                             [] kind = "norows" -> projections
                             [] kind = "failed" -> <<>>
         /\ messages' = IF projectionFetches[k].caller = "dashboard" /\ messages = <<>>
                        THEN <<WelcomeBack>>
                        ELSE messages
    /\ UNCHANGED <<assumptions, lifeEvents, plannedRetirementAge>>
    /\ UNCHANGED <<inputText, isLoading, user, showAuth, chatFetches>>
    /\ UNCHANGED <<today, lastBaseData, pc, args, baseData, loc, yr, results, taxIn,
                   taxOut, snap, syncVars, proxyVars>>

NextAsync ==
    \/ handleDashboardClick
    \/ handleRetirementAgeChange
    \/ handleAssumptionChange
    \/ persistLifeEventData
    \/ ProjectionsResponse

\* the dashboard of a signed-in user
InitAsync ==
    /\ InitialEngine
    /\ InitialSync /\ InitialProxy /\ InitialAsync
    /\ messages = <<>>
    /\ inputText = ""
    /\ isLoading = FALSE
    /\ user = SignedInUser
    /\ showAuth = FALSE
    /\ chatFetches = <<>>

SpecAsync == InitAsync /\ [][NextAsync]_vars

AllSettled ==
    /\ projectionFetches # <<>>
    /\ \A k \in 1..Len(projectionFetches) : projectionFetches[k].state # "pending"

\* C24: when several recalculations are triggered in succession, the
\* projections displayed once every response has arrived are those computed
\* from the most recently triggered inputs, whatever the order of arrival.
C24_LatestInputsDisplayed ==
    AllSettled /\ projectionFetches[Len(projectionFetches)].state = "rows" =>
        projections = ApiProjections(projectionFetches[Len(projectionFetches)].body)

(***************************************************************************)
(* The chat of the App component (src/src/App.js): sendMessage, the arrival *)
(* of the response to its fetch and handleReset (specification SpecChat),   *)
(* and the auth listener with ensureUserRecord (specification SpecSync)     *)
(***************************************************************************)
MaxSends == 2
MaxSyncCalls == 3

\* what the user types: a text and a blank
Texts == {"hello", " "}

\* String.prototype.trim on the texts above
Trim(text) == IF text = " " THEN "" ELSE text

\* the profile a <data> payload of the assistant carries
ExtractedProfiles ==
    { p \in ExtraProfiles : PropertyValue(p) > 0 /\ TotalDebt(p) > 0 }

APP_YEARS == 10
APP_GROWTH_RATE == 50
APP_BASIC_RATE == 200

\* currentPension after iteration i of calculateProjections(data) of App.js
RECURSIVE AppPension(_, _)
AppPension(data, i) ==
    IF i = 0 THEN PensionPot0(data)
    ELSE CHOOSE v \in { q + Times(q, APP_GROWTH_RATE) + AnnualContribution(data) :
                        q \in {AppPension(data, i - 1)} } : TRUE

\* the rows calculateProjections(data) of App.js hands to setProjections
AppProjections(data, td) ==
    [ k \in 1..(APP_YEARS + 1) |->
        LET i              == k - 1
            currentPension == AppPension(data, i)
            netWorth       == currentPension + PropertyValue(data) - TotalDebt(data)
            cashIncome     == Compound(NumOr(data, "state_pension_amount", 0), INFLATION_RATE, i)
            taxableIncome  == Max(0, cashIncome - PERSONAL_ALLOWANCE)
            estimatedTax   == Times(taxableIncome, APP_BASIC_RATE)
        IN  [ year         |-> td.year + i,
              age          |-> IF HasDob(data) THEN <<CurrentAge(data, td) + i>> ELSE NULL,
              pensionTotal |-> Round(currentPension),
              netWorth     |-> Round(netWorth),
              cashIncome   |-> Round(cashIncome),
              taxes        |-> Round(estimatedTax) ] ]

\* ensureUserRecord(authUser) up to its await; a call that returns at once is
\* kept in upserts as "returned"
EnsureUserRecordCall(authUser) ==
    IF authUser = NULL \/ userSyncingRef
    THEN /\ upserts' = Append(upserts, [user |-> authUser, state |-> "returned"])
         /\ UNCHANGED userSyncingRef
    ELSE /\ upserts' = Append(upserts, [user |-> authUser, state |-> "pending"])
         /\ userSyncingRef' = TRUE

\* the callbacks of supabase.auth.getUser() and onAuthStateChange
onAuthStateChange ==
    /\ Len(upserts) < MaxSyncCalls
    /\ \E sessionUser \in {NULL, SignedInUser} :
         /\ user' = sessionUser
         /\ EnsureUserRecordCall(sessionUser)
    /\ UNCHANGED <<messages, inputText, isLoading, showAuth, chatFetches>>
    /\ UNCHANGED <<engineVars, proxyVars, asyncVars>>

\* variant: the guard stays set when the upsert throws
GuardAfterUpsert_HeldOnThrow(kind) == kind = "throws"

\* userSyncingRef.current after the try / catch / finally of ensureUserRecord
GuardAfterUpsert(kind) == FALSE

\* the rest of ensureUserRecord once the upsert has returned (with or
\* without an error) or thrown
UpsertSettled ==
    /\ \E k \in 1..Len(upserts), kind \in {"ok", "error", "throws"} :
         /\ upserts[k].state = "pending"
         /\ upserts' = [upserts EXCEPT ![k].state = kind]
         /\ userSyncingRef' = GuardAfterUpsert(kind)
    /\ UNCHANGED <<engineVars, chatVars, proxyVars, asyncVars>>

\* onChange of the input, which is disabled while isLoading
setInputText ==
    /\ ~isLoading
    /\ \E text \in Texts : text # inputText /\ inputText' = text
    /\ UNCHANGED <<messages, isLoading, user, showAuth, chatFetches>>
    /\ UNCHANGED <<engineVars, syncVars, proxyVars, asyncVars>>

sendMessage ==
    /\ Len(chatFetches) < MaxSends
    /\ IF Trim(inputText) = "" \/ isLoading
       THEN UNCHANGED <<messages, inputText, isLoading, showAuth, chatFetches>>
       ELSE IF user = NULL
       THEN /\ showAuth' = TRUE
            /\ UNCHANGED <<messages, inputText, isLoading, chatFetches>>
       ELSE LET userMessage  == [role |-> "user", content |-> Trim(inputText),
                                 of |-> Len(chatFetches) + 1]
                nextMessages == Append(messages, userMessage)
            IN  /\ inputText' = ""
                /\ isLoading' = TRUE
                /\ messages' = nextMessages
                /\ chatFetches' = Append(chatFetches,
                                         [body |-> nextMessages, state |-> "pending",
                                          appended |-> 0])
                /\ UNCHANGED showAuth
    /\ UNCHANGED user
    /\ UNCHANGED <<engineVars, syncVars, proxyVars, asyncVars>>

\* the content of the message: the reply, the summary after a <data>
\* payload, or the error text
AssistantContent(outcome) ==
    CASE outcome = "reply"  -> "reply"
      [] outcome = "data"   -> "summary"
      [] outcome = "notok"  -> "error"
      [] outcome = "throws" -> "error"

\* variant: a thrown fetch leaves no message
AssistantMessages_SilentOnThrow(k, outcome) ==
    IF outcome = "throws" THEN <<>>
    ELSE << [role |-> "assistant", content |-> AssistantContent(outcome), of |-> k] >>

\* the assistant messages the try / catch of sendMessage appends for call k
AssistantMessages(k, outcome) ==
    << [role |-> "assistant", content |-> AssistantContent(outcome), of |-> k] >>

\* the rest of sendMessage once the fetch of call k has settled: an OK
\* response with a plain reply or with a <data> payload, a non-OK status, or
\* a thrown error
ChatResponse ==
    /\ \E k \in 1..Len(chatFetches), outcome \in {"reply", "data", "notok", "throws"} :
         LET appended == AssistantMessages(k, outcome)
         IN  /\ chatFetches[k].state = "pending"
             /\ chatFetches' = [chatFetches EXCEPT ![k].state = outcome,
                                                   ![k].appended = @ + Len(appended)]
             /\ messages' = messages \o appended
             /\ isLoading' = FALSE
             /\ IF outcome = "data"
                THEN \E extracted \in ExtractedProfiles :
                       /\ projections' = AppProjections(extracted, today)
                       /\ plannedRetirementAge' =
                            NumOr(extracted, "planned_retirement_age", plannedRetirementAge)
                ELSE UNCHANGED <<projections, plannedRetirementAge>>
    /\ UNCHANGED <<inputText, user, showAuth>>
    /\ UNCHANGED <<today, lastBaseData, pc, args, baseData, loc, yr, results, taxIn,
                   taxOut, snap>>
    /\ UNCHANGED <<syncVars, proxyVars, assumptions, lifeEvents, projectionFetches>>

handleReset ==
    /\ messages' = <<>>
    /\ inputText' = ""
    /\ isLoading' = FALSE
    /\ projections' = NULL
    /\ UNCHANGED <<user, showAuth, chatFetches>>
    /\ UNCHANGED <<today, lastBaseData, pc, args, baseData, loc, yr, results, taxIn,
                   taxOut, snap>>
    /\ UNCHANGED <<syncVars, proxyVars, asyncVars>>

NextChat ==
    \/ setInputText
    \/ sendMessage
    \/ ChatResponse
    \/ handleReset

\* a session before sign-in, or one whose user the auth listener has set
InitChat ==
    /\ InitialEngine
    /\ InitialSync /\ InitialProxy /\ InitialAsync
    /\ messages = <<>>
    /\ inputText = ""
    /\ isLoading = FALSE
    /\ user \in {NULL, SignedInUser}
    /\ showAuth = FALSE
    /\ chatFetches = <<>>

\* every fetch settles: the proxy answers or the connection fails
SpecChat == InitChat /\ [][NextChat]_vars /\ WF_vars(ChatResponse)

Outstanding == { k \in 1..Len(chatFetches) : chatFetches[k].state = "pending" }

\* C25: at any time at most one chat request of sendMessage is outstanding,
\* and isLoading is true for as long as one is, under every interleaving of
\* sendMessage, handleReset and response arrival.
C25_OneRequestOutstanding ==
    /\ Cardinality(Outstanding) <= 1
    /\ Outstanding # {} => isLoading

\* the user message of call k and the assistant message appended for it
UserMessageAt(k) == { n \in 1..Len(messages) : messages[n].role = "user" /\ messages[n].of = k }

AssistantMessageAt(k) ==
    { n \in 1..Len(messages) : messages[n].role = "assistant" /\ messages[n].of = k }

Issued(k) == k <= Len(chatFetches)

\* call k has settled, isLoading is false again and one assistant message
\* has been appended for it, the last of the conversation
Answered(k) ==
    /\ Issued(k)
    /\ chatFetches[k].state # "pending"
    /\ chatFetches[k].appended = 1
    /\ ~isLoading
    /\ messages # <<>>
    /\ messages[Len(messages)].role = "assistant"
    /\ messages[Len(messages)].of = k

\* C26: every sendMessage call that issues a chat request eventually sets
\* isLoading back to false and appends exactly one assistant message (reply,
\* summary or error text), after the user's message, whether the request
\* succeeds, returns a non-OK status or throws.
C26_EveryRequestAnswered ==
    /\ \A k \in 1..MaxSends : (Issued(k) /\ chatFetches[k].state = "pending") ~> Answered(k)
    /\ [](\A k \in 1..MaxSends :
            Issued(k) =>
              /\ chatFetches[k].appended = (IF chatFetches[k].state = "pending" THEN 0 ELSE 1)
              /\ Cardinality(AssistantMessageAt(k)) <= 1
              /\ \A u \in UserMessageAt(k), a \in AssistantMessageAt(k) : u < a)

\* a request that returned a non-OK status, its error text after the user's
\* message
C26_Witness ==
    /\ Issued(1)
    /\ chatFetches[1].state = "notok"
    /\ ~isLoading
    /\ Len(messages) = 2
    /\ messages[1] = [role |-> "user", content |-> "hello", of |-> 1]
    /\ messages[2] = [role |-> "assistant", content |-> "error", of |-> 1]

\* C27: after handleReset the conversation stays empty (messages = [] and
\* projections = null) until the user sends a new message: a step that is
\* not a sendMessage leaves the cleared conversation as it is.
C27_ResetStaysEmpty ==
    [][ (/\ chatFetches # <<>>
         /\ messages = <<>>
         /\ projections = NULL
         /\ Len(chatFetches') = Len(chatFetches))
        => (messages' = <<>> /\ projections' = NULL) ]_vars

(***************************************************************************)
(* The /api/chat proxy (src/server.js): one record per request received,    *)
(* with the position of its handler, its 30 s timer, whether the upstream   *)
(* call was made, the upstream status once known (0 before), and what was   *)
(* sent back (specification SpecProxy)                                      *)
(***************************************************************************)
MaxProxyCalls == 2

\* req.body: a messages array, a messages property that is no array, no
\* messages property, no body at all
Bodies == {"array", "string", "absent", "nobody"}

UpstreamErrorStatuses == {401, 529}

\* variant: the API key is looked at first
Validate_KeyFirst(body, key) ==
    IF ~key THEN [status |-> 500, error |-> "API key not configured"]
    ELSE IF body # "array"
    THEN [status |-> 400, error |-> "Request body must include a messages array."]
    ELSE NULL

\* the two early returns of the handler; NULL when the request goes on
Validate(body, key) ==
    IF body # "array"
    THEN [status |-> 400, error |-> "Request body must include a messages array."]
    ELSE IF ~key THEN [status |-> 500, error |-> "API key not configured"]
    ELSE NULL

\* the handler from the arrival of a request to its first await
ProxyRequest ==
    /\ Len(proxyCalls) < MaxProxyCalls
    /\ \E body \in Bodies :
         LET rejected == Validate(body, apiKey)
         IN  proxyCalls' =
               Append(proxyCalls,
                      IF rejected # NULL
                      THEN [body |-> body, pc |-> "done", timer |-> "unset",
                            upstream |-> FALSE, status |-> 0, sent |-> <<rejected>>]
                      ELSE [body |-> body, pc |-> "fetch", timer |-> "armed",
                            upstream |-> TRUE, status |-> 0, sent |-> <<>>])
    /\ UNCHANGED apiKey
    /\ UNCHANGED <<engineVars, chatVars, syncVars, asyncVars>>

\* fetch resolves with the response headers: clearTimeout, then the body is
\* awaited (response.json() when ok, response.text() otherwise)
UpstreamHeaders(k) ==
    /\ proxyCalls[k].pc = "fetch"
    /\ \E status \in {200} \cup UpstreamErrorStatuses :
         proxyCalls' = [proxyCalls EXCEPT ![k].timer = "cleared",
                                          ![k].status = status,
                                          ![k].pc = IF status = 200 THEN "json" ELSE "text"]
    /\ UNCHANGED apiKey
    /\ UNCHANGED <<engineVars, chatVars, syncVars, asyncVars>>

\* the awaited fetch or body read rejects (connection lost, invalid JSON):
\* the catch block answers 500 with the message of the error
UpstreamFails(k) ==
    /\ proxyCalls[k].pc # "done"
    /\ proxyCalls' = [proxyCalls EXCEPT ![k].pc = "done",
                                        ![k].sent = Append(@, [status |-> 500,
                                                               error  |-> "error.message"])]
    /\ UNCHANGED apiKey
    /\ UNCHANGED <<engineVars, chatVars, syncVars, asyncVars>>

\* the body of the upstream response has been read: the upstream JSON, or
\* the upstream status with the error text
UpstreamBody(k) ==
    /\ proxyCalls[k].pc \notin {"fetch", "done"}
    /\ proxyCalls' =
         [proxyCalls EXCEPT
            ![k].pc = "done",
            ![k].sent = Append(@, IF proxyCalls[k].pc = "json"
                                  THEN [status |-> 200, json |-> "data"]
                                  ELSE [status |-> proxyCalls[k].status,
                                        error  |-> "errorData"])]
    /\ UNCHANGED apiKey
    /\ UNCHANGED <<engineVars, chatVars, syncVars, asyncVars>>

\* the 30 s timer fires and aborts the controller: a fetch still awaited
\* rejects with an AbortError and the catch block answers 500
TimerFires(k) ==
    /\ proxyCalls[k].timer = "armed"
    /\ proxyCalls' =
         [proxyCalls EXCEPT
            ![k].timer = "fired",
            ![k].pc = "done",
            ![k].sent = IF proxyCalls[k].pc = "fetch"
                        THEN Append(@, [status |-> 500,
                                        error  |-> "Request timed out. Please try again."])
                        ELSE @]
    /\ UNCHANGED apiKey
    /\ UNCHANGED <<engineVars, chatVars, syncVars, asyncVars>>

ProxyCallIds == 1..Len(proxyCalls)

NextProxy ==
    \/ ProxyRequest
    \/ \E k \in ProxyCallIds : UpstreamHeaders(k)
    \/ \E k \in ProxyCallIds : UpstreamFails(k)
    \/ \E k \in ProxyCallIds : UpstreamBody(k)
    \/ \E k \in ProxyCallIds : TimerFires(k)

\* the proxy process, started with or without an API key in its environment
InitProxy ==
    /\ InitialEngine
    /\ InitialChat /\ InitialSync /\ InitialAsync
    /\ apiKey \in BOOLEAN
    /\ proxyCalls = <<>>

\* an armed timer fires; nothing makes the upstream answer
SpecProxy ==
    /\ InitProxy
    /\ [][NextProxy]_vars
    /\ \A k \in 1..MaxProxyCalls : WF_vars(k \in ProxyCallIds /\ TimerFires(k))

\* C28: a request without a messages array is rejected with status 400, and
\* a request made while no API key is configured with status 500, in both
\* cases without an upstream call; the messages check comes first.
C28_RejectedBeforeUpstream ==
    \A k \in ProxyCallIds :
        LET call == proxyCalls[k]
        IN  /\ call.body # "array" =>
                 /\ Len(call.sent) = 1
                 /\ call.sent[1].status = 400
                 /\ ~call.upstream
            /\ call.body = "array" /\ ~apiKey =>
                 /\ Len(call.sent) = 1
                 /\ call.sent[1].status = 500
                 /\ call.sent[1].error = "API key not configured"
                 /\ ~call.upstream
            /\ call.body = "array" /\ apiKey => call.upstream

\* no API key and two requests: one without messages (400), one with (500)
C28_Witness ==
    /\ ~apiKey
    /\ Len(proxyCalls) = 2
    /\ proxyCalls[1].body = "absent"
    /\ proxyCalls[1].sent = <<[status |-> 400,
                               error  |-> "Request body must include a messages array."]>>
    /\ proxyCalls[2].body = "array"
    /\ proxyCalls[2].sent[1].status = 500
    /\ ~proxyCalls[1].upstream
    /\ ~proxyCalls[2].upstream

\* C29: every request to the proxy is eventually answered, exactly once:
\* the upstream JSON, the upstream status, or 500 when the upstream has not
\* completed within 30 s, also when it stalls after its response headers.
C29_AnsweredExactlyOnce ==
    /\ \A k \in 1..MaxProxyCalls :
         (k \in ProxyCallIds) ~> (k \in ProxyCallIds /\ Len(proxyCalls[k].sent) = 1)
    /\ [](\A k \in ProxyCallIds : Len(proxyCalls[k].sent) <= 1)

(***************************************************************************)
(* The auth listener and ensureUserRecord (specification SpecSync)          *)
(***************************************************************************)
NextSync == onAuthStateChange \/ UpsertSettled

\* every upsert attempt settles: it returns or throws
SpecSync == Init /\ [][NextSync]_vars /\ WF_vars(UpsertSettled)

InFlight == { k \in 1..Len(upserts) : upserts[k].state = "pending" }

\* C30: ensureUserRecord never has more than one users upsert in flight
\* (the guard is set exactly while one is, and a call arriving meanwhile
\* makes none), and the guard is released after every upsert attempt,
\* whether it succeeds, returns an error or throws, so that a later call is
\* not blocked forever.
C30_OneUpsertInFlight ==
    /\ [](/\ Cardinality(InFlight) <= 1
          /\ userSyncingRef <=> InFlight # {})
    /\ userSyncingRef ~> ~userSyncingRef

\* an upsert that threw, a call dropped while it was in flight, and a later
\* call whose upsert is in flight
C30_Witness ==
    /\ Len(upserts) = 3
    /\ upserts[1].state = "throws"
    /\ upserts[2] = [user |-> SignedInUser, state |-> "returned"]
    /\ upserts[3] = [user |-> SignedInUser, state |-> "pending"]
    /\ userSyncingRef

====
